---- MODULE Spec2Model ----
(***************************************************************************)
(* CadernoPTM (src/correrio.py): a Flask service keeping two JSON lists on *)
(* disk, the registros (caderno_ptm_db.json) and the referencias           *)
(* (referencias.json), plus a directory of uploaded files.                 *)
(*                                                                         *)
(* Every request handler runs on its own worker thread (Flask's server is  *)
(* threaded).  A handler reads the whole file (load_data), works on the    *)
(* list in memory and rewrites the whole file (save_data).  save_data is   *)
(* open(file, 'w'), which truncates the file at once, followed by          *)
(* json.dump and the close that flushes the text; load_data is an fstat    *)
(* and the reads of f.read().  Each system call is a step here, and        *)
(* nothing locks the file between them.                                    *)
(***************************************************************************)
EXTENDS Integers, Sequences, FiniteSets, TLC

VARIABLES
    db,         \* the file caderno_ptm_db.json
    refs,       \* the file referencias.json
    uploads,    \* the names of the files in UPLOAD_FOLDER
    req         \* per worker thread: the position of its handler, its list in
                \* memory, the response it is about to return; for a load,
                \* the handler it returns to (then) and the state of f.read()
                \* (pos, room, open); for reset_data, the names still to
                \* visit (dir), the name under os.unlink (file) and the names
                \* in its "Erro ao deletar arquivo" lines (printed)

vars == <<db, refs, uploads, req>>

-----------------------------------------------------------------------------
(* Bounds of the model. *)

NumWorkers == 2     \* worker threads handling requests at the same time
MaxRegs == 2        \* longest registros list a creation may write
MaxBatch == 2       \* longest 'referencias' list of one bulk upsert

Workers == 1..NumWorkers

-----------------------------------------------------------------------------
(* Values the callers send. *)

\* (num_doc_saida, item_saida) of the creation payloads
KeyPairs == {<<"D1", "1">>, <<"D1", "2">>, <<"D2", "1">>}
Nms == {"A", "B", "C"}
StoredNames == {"1700000000_nota_fiscal.pdf", "1700000001_foto.jpg"}

\* A JSON value of a payload's 'id': the string "<n>" or the number n.
JsonStr(s) == [str |-> s]
JsonNum(n) == [num |-> n]

\* Python's str() of an integer id.
PyStr(n) == JsonStr(ToString(n))

EmptyDict == [k \in {} |-> ""]

Without(d, k) == [x \in DOMAIN d \ {k} |-> d[x]]

\* dict.get(k, default)
DictGet(d, k, default) == IF k \in DOMAIN d THEN d[k] ELSE default

\* The nine fields the creation path reads from the payload.
CreateKeys ==
    {"nm_saida", "descricao_saida", "quantidade_saida", "destino_saida",
     "responsavel_entrega", "data_doc_saida", "deposito_saida",
     "num_doc_saida", "item_saida"}

CreateBody(doc, item) ==
    [nm_saida |-> "NM1", descricao_saida |-> "Parafuso", quantidade_saida |-> "10",
     destino_saida |-> "Obra", responsavel_entrega |-> "Ana",
     data_doc_saida |-> "2024-04-30", deposito_saida |-> "DP1",
     num_doc_saida |-> doc, item_saida |-> item]

ConfirmFull ==
    [data_coleta |-> "2024-05-01", nome_motorista |-> "Joao",
     nota_fiscal |-> "NF1", anexos |-> <<"1700000000_nota_fiscal.pdf">>]

ConfirmBodies == {ConfirmFull, EmptyDict}

\* A confirmation that leaves the record as long as it was: "Pendente" has eight
\* characters too, and the other two fields get their defaults.
ConfirmSameLength == [data_coleta |-> "01/05/24"]

CreateBodies ==
    UNION {{CreateBody(p[1], p[2]),
            Without(CreateBody(p[1], p[2]), "nm_saida")} : p \in KeyPairs}
    \cup {Without(CreateBody("D1", "1"), "num_doc_saida")}

IdValues == {PyStr(n) : n \in 0..(MaxRegs + 1)} \cup {JsonNum(0), JsonNum(1)}

\* The JSON bodies of POST /api/registros.
RegPayloads ==
    LET bodies == CreateBodies \cup ConfirmBodies
    IN  bodies \cup {("id" :> v) @@ b : v \in IdValues, b \in bodies}

\* The JSON bodies of the POST /api/registros served while other requests are in
\* progress: the records they store differ in no length.
RegPayloadsSameLength ==
    {CreateBody(p[1], p[2]) : p \in KeyPairs}
    \cup {("id" :> PyStr(n)) @@ ConfirmSameLength : n \in 1..MaxRegs}

\* The entries of the bulk upserts, all of the same length; the last one lacks
\* its nm.
RefEntries ==
    {[nm |-> "A", desc |-> "x"], [nm |-> "A", desc |-> "y"], [nm |-> "B", desc |-> "x"],
     [nm |-> "C", desc |-> "x"], [desc |-> "x"]}

RECURSIVE SeqsUpTo(_, _)
SeqsUpTo(S, n) ==
    IF n = 0 THEN {<<>>}
    ELSE LET shorter == SeqsUpTo(S, n - 1)
         IN  shorter \cup {Append(q, e) : q \in shorter, e \in S}

\* The JSON bodies of POST /api/referencias.
RefPayloads == {[referencias |-> b] : b \in SeqsUpTo(RefEntries, MaxBatch)} \cup {EmptyDict}

\* The JSON bodies of the POST /api/referencias served while other requests are
\* in progress.
RefPayloadsOverlapping ==
    {[referencias |-> b] : b \in SeqsUpTo({[nm |-> n, desc |-> "x"] : n \in Nms}, MaxBatch)}

\* The <nm> of DELETE /api/referencias/<nm>.
NmParams == Nms

-----------------------------------------------------------------------------
(* The handlers as functions of the loaded list and the payload. *)

SetMax(S) == CHOOSE m \in S : \A x \in S : x <= m

Pair(r) == <<r.num_doc_saida, r.item_saida>>

\* Mutant: the number 0 is taken for a zero id as well.
UpdatePathAnyZero(data) ==
    "id" \in DOMAIN data /\ data.id \notin {JsonStr("0"), JsonNum(0)}

\* line 121: the payload goes to the update branch
UpdatePath(data) == "id" \in DOMAIN data /\ data.id # JsonStr("0")

\* Mutant: the ids are compared as numbers too.
MatchingIdsNumeric(registros, data) ==
    {i \in 1..Len(registros) :
        PyStr(registros[i].id) = data.id \/ JsonNum(registros[i].id) = data.id}

\* lines 123-124: the positions whose str(id) equals the payload's id
MatchingIds(registros, data) ==
    {i \in 1..Len(registros) : PyStr(registros[i].id) = data.id}

\* Mutant: anexos is overwritten like the other three, with a default.
ConfirmedAlwaysAnexos(reg, data) ==
    [reg EXCEPT !.data_coleta = DictGet(data, "data_coleta", "Pendente"),
                !.nome_motorista = DictGet(data, "nome_motorista", ""),
                !.nota_fiscal = DictGet(data, "nota_fiscal", ""),
                !.anexos = DictGet(data, "anexos", <<>>)]

\* lines 126-132
Confirmed(reg, data) ==
    [reg EXCEPT !.data_coleta = DictGet(data, "data_coleta", "Pendente"),
                !.nome_motorista = DictGet(data, "nome_motorista", ""),
                !.nota_fiscal = DictGet(data, "nota_fiscal", ""),
                !.anexos = IF "anexos" \in DOMAIN data THEN data.anexos ELSE @]

\* Mutant: only the last record is compared.
PairExistsLast(registros, data) ==
    /\ registros # <<>>
    /\ Pair(registros[Len(registros)]) = <<data.num_doc_saida, data.item_saida>>

\* line 143
PairExists(registros, data) ==
    \E i \in 1..Len(registros) :
        Pair(registros[i]) = <<data.num_doc_saida, data.item_saida>>

\* Mutant: the ids of an empty list start at 0.
NovoIdFromZero(registros) ==
    IF registros = <<>> THEN 0
    ELSE SetMax({registros[i].id : i \in 1..Len(registros)}) + 1

\* line 148
NovoId(registros) ==
    IF registros = <<>> THEN 0 + 1
    ELSE SetMax({registros[i].id : i \in 1..Len(registros)}) + 1

\* lines 149-166
NovoRegistro(novo_id, data) ==
    [id |-> novo_id,
     nm_saida |-> data.nm_saida,
     descricao_saida |-> data.descricao_saida,
     quantidade_saida |-> data.quantidade_saida,
     destino_saida |-> data.destino_saida,
     responsavel_entrega |-> data.responsavel_entrega,
     data_doc_saida |-> data.data_doc_saida,
     deposito_saida |-> data.deposito_saida,
     num_doc_saida |-> data.num_doc_saida,
     item_saida |-> data.item_saida,
     data_coleta |-> "Pendente",
     nome_motorista |-> "",
     nota_fiscal |-> "",
     anexos |-> <<>>]

Outcome(status, id, list, save) ==
    [status |-> status, id |-> id, list |-> list, save |-> save]

\* handle_registros, method POST: the status, the id of the response (0 when the
\* body has none), the list in memory at the return and whether save_data ran.
\* A key the payload lacks raises KeyError, which Flask answers with 500.
RegistrosPost(registros, data) ==
    IF UpdatePath(data)
    THEN LET found == MatchingIds(registros, data)
         IN  IF found # {}
             THEN LET i == CHOOSE k \in found : \A j \in found : k <= j
                  IN  Outcome(200, 0,
                              [registros EXCEPT ![i] = Confirmed(registros[i], data)],
                              TRUE)
             ELSE Outcome(404, 0, registros, FALSE)
    ELSE IF ~ ({"num_doc_saida", "item_saida"} \subseteq DOMAIN data)
         THEN Outcome(500, 0, registros, FALSE)
         ELSE IF PairExists(registros, data)
              THEN Outcome(409, 0, registros, FALSE)
              ELSE IF ~ (CreateKeys \subseteq DOMAIN data)
                   THEN Outcome(500, 0, registros, FALSE)
                   ELSE LET novo_id == NovoId(registros)
                        IN  Outcome(201, novo_id,
                                    Append(registros, NovoRegistro(novo_id, data)),
                                    TRUE)

\* Mutant: a key the dict has keeps its value (setdefault).
DictPutKeepFirst(d, k, v) ==
    IF \E i \in 1..Len(d) : d[i].key = k
    THEN d
    ELSE Append(d, [key |-> k, val |-> v])

\* A dict as the sequence of its items in insertion order; d[k] = v.
DictPut(d, k, v) ==
    IF \E i \in 1..Len(d) : d[i].key = k
    THEN [i \in 1..Len(d) |-> IF d[i].key = k THEN [key |-> k, val |-> v] ELSE d[i]]
    ELSE Append(d, [key |-> k, val |-> v])

\* line 193 and lines 195-196: d[ref['nm']] = ref for each ref of the list, in order
RECURSIVE PutAll(_, _)
PutAll(d, list) ==
    IF list = <<>> THEN d
    ELSE PutAll(DictPut(d, Head(list).nm, Head(list)), Tail(list))

\* line 198: list(d.values())
DictValues(d) == [i \in 1..Len(d) |-> d[i].val]

\* handle_referencias, method POST
ReferenciasPost(referencias, data) ==
    IF "referencias" \in DOMAIN data
    THEN IF \E i \in 1..Len(data.referencias) : "nm" \notin DOMAIN data.referencias[i]
         THEN Outcome(500, 0, referencias, FALSE)
         ELSE Outcome(200, 0,
                      DictValues(PutAll(PutAll(<<>>, referencias), data.referencias)),
                      TRUE)
    ELSE Outcome(405, 0, referencias, FALSE)

\* line 210
RECURSIVE WithoutNm(_, _)
WithoutNm(referencias, nm) ==
    IF referencias = <<>> THEN <<>>
    ELSE IF Head(referencias).nm # nm
         THEN <<Head(referencias)>> \o WithoutNm(Tail(referencias), nm)
         ELSE WithoutNm(Tail(referencias), nm)

\* delete_referencia
DeleteReferencia(referencias, nm) ==
    LET kept == WithoutNm(referencias, nm)
    IN  IF Len(kept) < Len(referencias)
        THEN Outcome(200, 0, kept, TRUE)
        ELSE Outcome(404, 0, kept, FALSE)

-----------------------------------------------------------------------------
(* The state machine. *)

\* A store file, as far as the loads can tell its bytes apart.  json.dump with
\* indent=4 writes "[]" for the empty list; for any other list it writes "[", one
\* block of text per element, each followed by "," and after the last one "]".
\*   exists: os.path.exists finds the file;
\*   nil:    the file begins with "[]";
\*   cells:  the blocks in the file, in order; close says that "]" follows the
\*           block rather than ",".
\* A text is flushed by one write (the texts are shorter than the 8192 bytes of
\* the io buffer), and the elements that requests in progress at the same time
\* write all have the same length in bytes, so that a block begins at the same
\* offset in every text.
NoSuchFile == [exists |-> FALSE, nil |-> FALSE, cells |-> <<>>]

\* open(file, 'w'): the file is created or cut to no bytes
Truncated == [exists |-> TRUE, nil |-> FALSE, cells |-> <<>>]

Cells(list) == [i \in 1..Len(list) |-> [rec |-> list[i], close |-> i = Len(list)]]

\* json.dump and the close of a file opened with 'w': the text goes to offset 0
\* and the file is not cut again, so the blocks another writer flushed in the
\* meantime stay behind a shorter text.
Written(f, list) ==
    [exists |-> TRUE, nil |-> list = <<>>,
     cells |-> Cells(list) \o SubSeq(f.cells, Len(list) + 1, Len(f.cells))]

\* os.fstat's st_size, as its rank among the sizes: no bytes, "[]", one block, ...
Size(f) == IF f.cells # <<>> THEN Len(f.cells) + 1 ELSE IF f.nil THEN 1 ELSE 0

Recs(cells) == [i \in 1..Len(cells) |-> cells[i].rec]

\* The first block at or after `from` that "]" follows (the last block always is).
FirstClose(cells, from) ==
    CHOOSE i \in from..Len(cells) :
        cells[i].close /\ \A j \in from..(i - 1) : ~ cells[j].close

\* json.load of the whole file, [] for a text that does not parse
Loaded(f) ==
    IF f.cells # <<>> /\ ~ f.nil /\ FirstClose(f.cells, 1) = Len(f.cells)
    THEN Recs(f.cells)
    ELSE <<>>

\* A response: the endpoint, the status and the id of the body (0: none).
Resp(op, status, id) == [op |-> op, status |-> status, id |-> id]

NoResp == Resp("none", 0, 0)

NoFile == ""

At(pc, list, resp) ==
    [pc |-> pc, list |-> list, resp |-> resp, dir |-> {}, file |-> NoFile, printed |-> {},
     then |-> "", pos |-> 0, room |-> FALSE, open |-> FALSE]

Idle == At("idle", <<>>, NoResp)

Returning(resp) == At("return", <<>>, resp)

\* f.read() in progress, before its first read: `pos` is the size fstat gave, and
\* the read will ask for one byte more (for 8192 bytes when the size is 0).
Reading(then, pos) == [At("read", <<>>, NoResp) EXCEPT !.then = then, !.pos = pos]

\* f.read() in progress after a read that returned bytes.  `pos` is the size
\* rank up to which bytes were read.  open: the bytes are "[" and the blocks of
\* `list`, each followed by ","; otherwise they are a text that json.load takes
\* for `list`, and room: the buffer has room for exactly one byte more.
ReadingMore(then, list, pos, room, open) ==
    [At("read_more", list, NoResp) EXCEPT
        !.then = then, !.pos = pos, !.room = room, !.open = open]

\* The loader has returned `list` to the handler `then`.
Loading(then, list) == At(then, list, NoResp)

\* lines 27-30: os.path.exists, open and the fstat of f.read()
AfterStat(f, then) ==
    IF f.exists THEN Reading(then, Size(f)) ELSE Loading(then, <<>>)

\* lines 29-34, the first read of f.read(): it returns no byte (the text is ""
\* and json.load raises), the whole file, or as many bytes as fstat's size plus
\* one, which end one byte into the separator after block pos - 1.  Once the
\* bytes read cannot be the beginning of a list the loader returns [] whatever
\* the later reads return.
AfterRead(r, f) ==
    LET s == Size(f)
        n == r.pos - 1
    IN  IF s = 0 THEN Loading(r.then, <<>>)
        ELSE IF r.pos = 0 \/ s <= r.pos
        THEN ReadingMore(r.then, Loaded(f), s, r.pos # 0 /\ s = r.pos, FALSE)
        ELSE IF f.nil
        THEN Loading(r.then, <<>>)
        ELSE IF FirstClose(f.cells, 1) < n
        THEN Loading(r.then, <<>>)
        ELSE ReadingMore(r.then, SubSeq(Recs(f.cells), 1, n), r.pos, FALSE,
                         FirstClose(f.cells, 1) > n)

\* lines 29-34, a later read of f.read(): no byte ends it; after a whole text,
\* one byte of room takes a space and anything more makes json.load raise; after
\* an open beginning the read takes the rest of the file, whoever wrote it.
AfterReadMore(r, f) ==
    LET s == Size(f)
        n == r.pos - 1
    IN  IF ~ r.open
        THEN IF s <= r.pos THEN Loading(r.then, r.list)
             ELSE IF r.room THEN ReadingMore(r.then, r.list, r.pos, FALSE, FALSE)
             ELSE Loading(r.then, <<>>)
        ELSE IF s <= r.pos THEN Loading(r.then, <<>>)
             ELSE IF FirstClose(f.cells, n + 1) = Len(f.cells)
             THEN ReadingMore(r.then, r.list \o SubSeq(Recs(f.cells), n + 1, Len(f.cells)),
                              s, FALSE, FALSE)
             ELSE Loading(r.then, <<>>)

Init ==
    /\ db = NoSuchFile
    /\ refs = NoSuchFile
    /\ uploads = {}
    /\ req = [w \in Workers |-> Idle]

\* Mutant: a load waits while another worker holds the registros.
LoadRegistrosLocked(w) ==
    /\ req[w].pc = "idle"
    /\ \A v \in Workers : req[v].pc \notin {"registros", "save_data"}
    /\ req' = [req EXCEPT ![w] = AfterStat(db, "registros")]
    /\ UNCHANGED <<db, refs, uploads>>

\* line 113, load_data up to the fstat
LoadRegistros(w) ==
    /\ req[w].pc = "idle"
    /\ req' = [req EXCEPT ![w] = AfterStat(db, "registros")]
    /\ UNCHANGED <<db, refs, uploads>>

\* line 113, load_data: the first read
ReadRegistros(w) ==
    /\ req[w].pc = "read"
    /\ req[w].then = "registros"
    /\ req' = [req EXCEPT ![w] = AfterRead(req[w], db)]
    /\ UNCHANGED <<db, refs, uploads>>

\* line 113, load_data: a later read
ReadMoreRegistros(w) ==
    /\ req[w].pc = "read_more"
    /\ req[w].then = "registros"
    /\ req' = [req EXCEPT ![w] = AfterReadMore(req[w], db)]
    /\ UNCHANGED <<db, refs, uploads>>

\* lines 115-116
RegistrosGet(w) ==
    /\ req[w].pc = "registros"
    /\ req' = [req EXCEPT ![w] = Returning(Resp("registros_get", 200, 0))]
    /\ UNCHANGED <<db, refs, uploads>>

\* lines 171-173
RegistrosDelete(w) ==
    /\ req[w].pc = "registros"
    /\ req' = [req EXCEPT ![w] = Returning(Resp("registros_delete", 501, 0))]
    /\ UNCHANGED <<db, refs, uploads>>

\* lines 118-169 up to the return, or up to the open() of save_data (line 39),
\* for a payload of `payloads`
RegistrosHandleOf(w, payloads) ==
    /\ req[w].pc = "registros"
    /\ \E r \in {RegistrosPost(req[w].list, data) : data \in payloads} :
        /\ Len(r.list) <= MaxRegs
        /\ IF r.save
           THEN /\ db' = Truncated
                /\ req' = [req EXCEPT ![w] =
                              At("save_data", r.list, Resp("registros", r.status, r.id))]
           ELSE /\ req' = [req EXCEPT ![w] =
                              Returning(Resp("registros", r.status, r.id))]
                /\ UNCHANGED db
    /\ UNCHANGED <<refs, uploads>>

RegistrosHandle(w) == RegistrosHandleOf(w, RegPayloads)

RegistrosHandleSameLength(w) == RegistrosHandleOf(w, RegPayloadsSameLength)

\* line 40 and the close of the with block
RegistrosSaved(w) ==
    /\ req[w].pc = "save_data"
    /\ db' = Written(db, req[w].list)
    /\ req' = [req EXCEPT ![w] = Returning(req[w].resp)]
    /\ UNCHANGED <<refs, uploads>>

\* line 183, load_referencias up to the fstat
LoadReferencias(w) ==
    /\ req[w].pc = "idle"
    /\ req' = [req EXCEPT ![w] = AfterStat(refs, "referencias")]
    /\ UNCHANGED <<db, refs, uploads>>

\* line 207, load_referencias up to the fstat
LoadDelete(w) ==
    /\ req[w].pc = "idle"
    /\ req' = [req EXCEPT ![w] = AfterStat(refs, "delete_referencia")]
    /\ UNCHANGED <<db, refs, uploads>>

\* lines 183 and 207, load_referencias: the first read
ReadReferencias(w) ==
    /\ req[w].pc = "read"
    /\ req[w].then \in {"referencias", "delete_referencia"}
    /\ req' = [req EXCEPT ![w] = AfterRead(req[w], refs)]
    /\ UNCHANGED <<db, refs, uploads>>

\* lines 183 and 207, load_referencias: a later read
ReadMoreReferencias(w) ==
    /\ req[w].pc = "read_more"
    /\ req[w].then \in {"referencias", "delete_referencia"}
    /\ req' = [req EXCEPT ![w] = AfterReadMore(req[w], refs)]
    /\ UNCHANGED <<db, refs, uploads>>

\* lines 185-186
ReferenciasGet(w) ==
    /\ req[w].pc = "referencias"
    /\ req' = [req EXCEPT ![w] = Returning(Resp("referencias_get", 200, 0))]
    /\ UNCHANGED <<db, refs, uploads>>

\* lines 188-202 up to the return, or up to the open() of save_referencias (line
\* 57), for a payload of `payloads`
ReferenciasHandleOf(w, payloads) ==
    /\ req[w].pc = "referencias"
    /\ \E r \in {ReferenciasPost(req[w].list, data) : data \in payloads} :
        IF r.save
        THEN /\ refs' = Truncated
             /\ req' = [req EXCEPT ![w] =
                           At("save_referencias", r.list, Resp("referencias", r.status, 0))]
        ELSE /\ req' = [req EXCEPT ![w] = Returning(Resp("referencias", r.status, 0))]
             /\ UNCHANGED refs
    /\ UNCHANGED <<db, uploads>>

ReferenciasHandle(w) == ReferenciasHandleOf(w, RefPayloads)

ReferenciasHandleOverlapping(w) == ReferenciasHandleOf(w, RefPayloadsOverlapping)

\* lines 209-216 up to the return, or up to the open() of save_referencias (line 57)
DeleteHandle(w) ==
    /\ req[w].pc = "delete_referencia"
    /\ \E r \in {DeleteReferencia(req[w].list, nm) : nm \in NmParams} :
        IF r.save
        THEN /\ refs' = Truncated
             /\ req' = [req EXCEPT ![w] =
                           At("save_referencias", r.list,
                              Resp("delete_referencia", r.status, 0))]
        ELSE /\ req' = [req EXCEPT ![w] =
                           Returning(Resp("delete_referencia", r.status, 0))]
             /\ UNCHANGED refs
    /\ UNCHANGED <<db, uploads>>

\* line 58 and the close of the with block
ReferenciasSaved(w) ==
    /\ req[w].pc = "save_referencias"
    /\ refs' = Written(refs, req[w].list)
    /\ req' = [req EXCEPT ![w] = Returning(req[w].resp)]
    /\ UNCHANGED <<db, uploads>>

\* lines 75-80: no file part, or an empty filename
UploadRejected(w) ==
    /\ req[w].pc = "idle"
    /\ req' = [req EXCEPT ![w] = Returning(Resp("upload", 400, 0))]
    /\ UNCHANGED <<db, refs, uploads>>

\* lines 82-92: the file is stored under its timestamped name
UploadFile(w) ==
    /\ req[w].pc = "idle"
    /\ \E name \in StoredNames : uploads' = uploads \cup {name}
    /\ req' = [req EXCEPT ![w] = Returning(Resp("upload", 200, 0))]
    /\ UNCHANGED <<db, refs>>

\* line 226, the open() of save_data([])
ResetOpenDb(w) ==
    /\ req[w].pc = "idle"
    /\ db' = Truncated
    /\ req' = [req EXCEPT ![w] = At("reset_db", <<>>, NoResp)]
    /\ UNCHANGED <<refs, uploads>>

\* line 226, json.dump([]) and the close
ResetSavedDb(w) ==
    /\ req[w].pc = "reset_db"
    /\ db' = Written(db, <<>>)
    /\ req' = [req EXCEPT ![w] = At("reset_db_saved", <<>>, NoResp)]
    /\ UNCHANGED <<refs, uploads>>

\* line 227, the open() of save_referencias([])
ResetOpenRefs(w) ==
    /\ req[w].pc = "reset_db_saved"
    /\ refs' = Truncated
    /\ req' = [req EXCEPT ![w] = At("reset_refs", <<>>, NoResp)]
    /\ UNCHANGED <<db, uploads>>

\* line 227, json.dump([]) and the close
ResetSavedRefs(w) ==
    /\ req[w].pc = "reset_refs"
    /\ refs' = Written(refs, <<>>)
    /\ req' = [req EXCEPT ![w] = At("reset_listdir", <<>>, NoResp)]
    /\ UNCHANGED <<db, uploads>>

\* lines 230 and 238: the loop goes on with the names still to visit, or ends
\* and the handler answers 200
ResetLoop(rest, printed) ==
    IF rest = {}
    THEN [Returning(Resp("reset", 200, 0)) EXCEPT !.printed = printed]
    ELSE [At("reset_isfile", <<>>, NoResp) EXCEPT !.dir = rest, !.printed = printed]

\* line 230, os.listdir
ResetListdir(w) ==
    /\ req[w].pc = "reset_listdir"
    /\ req' = [req EXCEPT ![w] = ResetLoop(uploads, {})]
    /\ UNCHANGED <<db, refs, uploads>>

\* lines 230-233: the next name, in whatever order os.listdir gave them, and
\* os.path.isfile; a name that is gone is passed over
ResetIsFile(w) ==
    /\ req[w].pc = "reset_isfile"
    /\ \E name \in req[w].dir :
        req' = [req EXCEPT ![w] =
                    IF name \in uploads
                    THEN [req[w] EXCEPT !.pc = "reset_unlink", !.dir = req[w].dir \ {name},
                                         !.file = name]
                    ELSE ResetLoop(req[w].dir \ {name}, req[w].printed)]
    /\ UNCHANGED <<db, refs, uploads>>

\* Mutant: the file is left in place.
UnlinkedNone(files, name) == files

\* line 234: the directory after an os.unlink that does not raise
Unlinked(files, name) == files \ {name}

\* lines 234-236: os.unlink removes the file, or raises (always when the file is
\* gone since the isfile) and the name is printed
ResetUnlink(w) ==
    /\ req[w].pc = "reset_unlink"
    /\ \/ /\ req[w].file \in uploads
          /\ uploads' = Unlinked(uploads, req[w].file)
          /\ req' = [req EXCEPT ![w] = ResetLoop(req[w].dir, req[w].printed)]
       \/ /\ uploads' = uploads
          /\ req' = [req EXCEPT ![w] =
                        ResetLoop(req[w].dir, req[w].printed \cup {req[w].file})]
    /\ UNCHANGED <<db, refs>>

\* the return of the response
Return(w) ==
    /\ req[w].pc = "return"
    /\ req' = [req EXCEPT ![w] = Idle]
    /\ UNCHANGED <<db, refs, uploads>>

\* load_data
LoadData(w) ==
    \/ LoadRegistros(w)
    \/ ReadRegistros(w)
    \/ ReadMoreRegistros(w)

\* handle_registros
Registros(w) ==
    \/ LoadData(w)
    \/ RegistrosGet(w)
    \/ RegistrosDelete(w)
    \/ RegistrosHandle(w)
    \/ RegistrosSaved(w)

\* handle_registros, for payloads whose records differ in no length
RegistrosSameLength(w) ==
    \/ LoadData(w)
    \/ RegistrosGet(w)
    \/ RegistrosDelete(w)
    \/ RegistrosHandleSameLength(w)
    \/ RegistrosSaved(w)

\* handle_referencias and delete_referencia
Referencias(w) ==
    \/ LoadReferencias(w)
    \/ LoadDelete(w)
    \/ ReadReferencias(w)
    \/ ReadMoreReferencias(w)
    \/ ReferenciasGet(w)
    \/ ReferenciasHandle(w)
    \/ DeleteHandle(w)
    \/ ReferenciasSaved(w)

\* handle_referencias and delete_referencia, for the payloads of requests that
\* overlap
ReferenciasOverlapping(w) ==
    \/ LoadReferencias(w)
    \/ LoadDelete(w)
    \/ ReadReferencias(w)
    \/ ReadMoreReferencias(w)
    \/ ReferenciasGet(w)
    \/ ReferenciasHandleOverlapping(w)
    \/ DeleteHandle(w)
    \/ ReferenciasSaved(w)

\* upload_file
Upload(w) ==
    \/ UploadRejected(w)
    \/ UploadFile(w)

\* reset_data up to os.listdir; over an empty directory this is all of it
ResetStores(w) ==
    \/ ResetOpenDb(w)
    \/ ResetSavedDb(w)
    \/ ResetOpenRefs(w)
    \/ ResetSavedRefs(w)
    \/ ResetListdir(w)

\* reset_data
Reset(w) ==
    \/ ResetStores(w)
    \/ ResetIsFile(w)
    \/ ResetUnlink(w)

\* The others have no request in progress.
Alone(w) == \A v \in Workers \ {w} : req[v].pc = "idle"

\* Requests to /api/registros and /api/reset, served concurrently.  No file is
\* uploaded, so the loop of reset_data has no name to visit.
NextRegistros ==
    \E w \in Workers : RegistrosSameLength(w) \/ ResetStores(w) \/ Return(w)

SpecRegistros == Init /\ [][NextRegistros]_vars

\* Requests to /api/registros and /api/reset, served one at a time.
NextRegistrosSerial ==
    \E w \in Workers : Alone(w) /\ (Registros(w) \/ ResetStores(w) \/ Return(w))

SpecRegistrosSerial == Init /\ [][NextRegistrosSerial]_vars

\* Requests to /api/referencias and /api/reset, served concurrently.  No file is
\* uploaded, so the loop of reset_data has no name to visit.
NextReferencias ==
    \E w \in Workers : ReferenciasOverlapping(w) \/ ResetStores(w) \/ Return(w)

SpecReferencias == Init /\ [][NextReferencias]_vars

\* Requests to /api/referencias and /api/reset, served one at a time.
NextReferenciasSerial ==
    \E w \in Workers : Alone(w) /\ (Referencias(w) \/ ResetStores(w) \/ Return(w))

SpecReferenciasSerial == Init /\ [][NextReferenciasSerial]_vars

\* Requests to every endpoint, served one at a time.
NextSerial ==
    \E w \in Workers :
        Alone(w) /\ (Registros(w) \/ Referencias(w) \/ Upload(w) \/ Reset(w) \/ Return(w))

SpecSerial == Init /\ [][NextSerial]_vars

\* Requests to every endpoint, served concurrently.
Next ==
    \E w \in Workers :
        RegistrosSameLength(w) \/ ReferenciasOverlapping(w) \/ Upload(w) \/ Reset(w) \/ Return(w)

Spec == Init /\ [][Next]_vars

-----------------------------------------------------------------------------
(* The claims. *)

\* The workers that have loaded the registros and are about to handle a POST.
AtRegistros == {w \in Workers : req[w].pc = "registros"}

\* The workers about to return the response of `op` with `status`.
ReturningWith(op, status) ==
    {w \in Workers : req[w].pc = "return" /\ req[w].resp.op = op
                                           /\ req[w].resp.status = status}

Pairs(list) == {Pair(list[i]) : i \in 1..Len(list)}

HasPair(data) == {"num_doc_saida", "item_saida"} \subseteq DOMAIN data

NoId(data) == "id" \notin DOMAIN data

\* C1: the stored registros never hold two records with the same
\* (num_doc_saida, item_saida), whatever requests ran and however they interleaved.
\* It holds of requests served one at a time and fails of concurrent ones: the
\* two reads of one load can take the beginning of one stored list and the end
\* of a later one, and an update then saves a list in which a pair occurs twice.
C1_UniquePairs ==
    \A i, j \in 1..Len(Loaded(db)) : i # j => Pair(Loaded(db)[i]) # Pair(Loaded(db)[j])

\* The record a creation is to append: the nine fields of the payload, the id and
\* the four confirmation fields at their defaults.
IsNewRecord(rec, id, data) ==
    /\ DOMAIN rec = CreateKeys \cup {"id", "data_coleta", "nome_motorista",
                                     "nota_fiscal", "anexos"}
    /\ \A k \in CreateKeys : rec[k] = data[k]
    /\ rec.id = id
    /\ rec.data_coleta = "Pendente"
    /\ rec.nome_motorista = ""
    /\ rec.nota_fiscal = ""
    /\ rec.anexos = <<>>

\* One more than the greatest stored id, 1 for the empty list.
IsNextId(id, list) ==
    IF list = <<>> THEN id = 1
    ELSE \E i \in 1..Len(list) :
            /\ id = list[i].id + 1
            /\ \A j \in 1..Len(list) : list[j].id <= list[i].id

CreatesRecord(list, data) ==
    LET r == RegistrosPost(list, data)
    IN  /\ r.status = 201
        /\ r.save
        /\ IsNextId(r.id, list)
        /\ Len(r.list) = Len(list) + 1
        /\ SubSeq(r.list, 1, Len(list)) = list
        /\ IsNewRecord(r.list[Len(r.list)], r.id, data)

\* C2 as stated: every creation request whose pair is not stored is answered 201
\* with the next id, and appends exactly the new record.
C2_Original ==
    \A w \in AtRegistros : \A data \in RegPayloads :
        (~ UpdatePath(data) /\ HasPair(data)
            /\ <<data.num_doc_saida, data.item_saida>> \notin Pairs(req[w].list))
        => CreatesRecord(req[w].list, data)

\* C2, amended: a creation request that carries all nine caller-supplied fields
\* and whose pair is not stored is answered 201 with the next id (1 for the empty
\* store), and the list it saves is the stored one with exactly the new record
\* appended.
C2_Creates ==
    \A w \in AtRegistros : \A data \in RegPayloads :
        (~ UpdatePath(data) /\ CreateKeys \subseteq DOMAIN data
            /\ <<data.num_doc_saida, data.item_saida>> \notin Pairs(req[w].list))
        => CreatesRecord(req[w].list, data)

\* A creation on a store that already held a record was answered 201 with id 2,
\* and both records are stored.
C2_Witness ==
    /\ \E w \in ReturningWith("registros", 201) : req[w].resp.id = 2
    /\ Len(Loaded(db)) = 2
    /\ Loaded(db)[2].id = 2

\* C3: a creation request whose pair is the pair of a stored record is answered
\* 409 and nothing is saved: the handler works on the stored list and leaves it
\* as it is, and the step that answers 409 leaves the file as it was.
C3_Conflict ==
    /\ [](\A w \in AtRegistros : \A data \in RegPayloads :
            (~ UpdatePath(data) /\ HasPair(data)
                /\ <<data.num_doc_saida, data.item_saida>> \in Pairs(Loaded(db)))
            => LET r == RegistrosPost(req[w].list, data)
               IN  r.status = 409 /\ ~ r.save /\ r.list = Loaded(db))
    /\ [][\A w \in Workers :
            (req[w].pc = "registros" /\ req'[w].pc = "return"
                /\ req'[w].resp.status = 409)
            => db' = db]_vars

\* A creation was answered 409 while the store held one record.
C3_Witness == ReturningWith("registros", 409) # {} /\ Len(Loaded(db)) = 1

ConfirmationFields == {"data_coleta", "nome_motorista", "nota_fiscal", "anexos"}

\* C4: an update of an existing record changes nothing but data_coleta,
\* nome_motorista, nota_fiscal and anexos of the record with that id, and anexos
\* only when the payload has the key; the other records, their number and their
\* order stay as they were.
C4_UpdateFrame ==
    \A w \in AtRegistros : \A data \in RegPayloads :
        LET list == req[w].list
            r == RegistrosPost(list, data)
        IN  (UpdatePath(data) /\ \E i \in 1..Len(list) : PyStr(list[i].id) = data.id)
            => /\ r.status = 200
               /\ r.save
               /\ Len(r.list) = Len(list)
               /\ \A i \in 1..Len(list) :
                    /\ DOMAIN r.list[i] = DOMAIN list[i]
                    /\ \A k \in DOMAIN list[i] \ ConfirmationFields :
                            r.list[i][k] = list[i][k]
                    /\ PyStr(list[i].id) # data.id => r.list[i] = list[i]
                    /\ "anexos" \notin DOMAIN data => r.list[i].anexos = list[i].anexos

\* An update was answered 200 and the second of two stored records now carries a
\* confirmation while the first is still pending.
C4_Witness ==
    /\ ReturningWith("registros", 200) # {}
    /\ Len(Loaded(db)) = 2
    /\ Loaded(db)[1].data_coleta = "Pendente"
    /\ Loaded(db)[2].data_coleta = "2024-05-01"

\* C5: an update whose id is the id of no stored record is answered 404 and
\* nothing is saved: the handler works on the stored list and leaves it as it
\* is, and the step that answers 404 leaves the file as it was.
C5_NotFound ==
    /\ [](\A w \in AtRegistros : \A data \in RegPayloads :
            (UpdatePath(data)
                /\ \A i \in 1..Len(Loaded(db)) : PyStr(Loaded(db)[i].id) # data.id)
            => LET r == RegistrosPost(req[w].list, data)
               IN  r.status = 404 /\ ~ r.save /\ r.list = Loaded(db))
    /\ [][\A w \in Workers :
            (req[w].pc = "registros" /\ req'[w].pc = "return"
                /\ req'[w].resp.status = 404)
            => db' = db]_vars

\* An update was answered 404 while the store held two records.
C5_Witness == ReturningWith("registros", 404) # {} /\ Len(Loaded(db)) = 2

\* The statuses of the creation path (201, 409, and 500 for a missing key) and of
\* the update path (200, 404).
OnCreationPath(r) == r.status \in {201, 409, 500}
OnUpdatePath(r) == r.status \in {200, 404}

FoundByString(list, data) == \E i \in 1..Len(list) : PyStr(list[i].id) = data.id

\* C6 as stated: no id, the string '0' and the number 0 all go to the creation
\* path; only a present, non-zero id goes to the update path, where a record is
\* found when its id as a string equals the payload's id.
C6_Original ==
    \A w \in AtRegistros : \A data \in RegPayloads :
        LET r == RegistrosPost(req[w].list, data)
            zero == ~ NoId(data) /\ data.id \in {JsonStr("0"), JsonNum(0)}
        IN  /\ (NoId(data) \/ zero) => OnCreationPath(r)
            /\ OnUpdatePath(r) => (~ NoId(data) /\ ~ zero)
            /\ OnUpdatePath(r) => (r.status = 200 <=> FoundByString(req[w].list, data))

\* C6, amended: a POST goes to the creation path exactly when its payload has no
\* id or has the string '0' as id; every other id, the number 0 included, goes
\* to the update path, where a record is found exactly when its id as a string
\* equals the payload's id (so no numeric id finds one).
C6_Paths ==
    \A w \in AtRegistros : \A data \in RegPayloads :
        LET r == RegistrosPost(req[w].list, data)
            create == NoId(data) \/ data.id = JsonStr("0")
        IN  /\ create => OnCreationPath(r)
            /\ ~ create => OnUpdatePath(r)
            /\ ~ create => (r.status = 200 <=> FoundByString(req[w].list, data))

\* A worker handles a POST over a store holding the record with id 1: with the
\* number 0 or 1 as id the answer is 404, with the string '1' it is 200, and
\* with the string '0' a record is created.
C6_Witness ==
    \E w \in AtRegistros :
        /\ Len(req[w].list) = 1
        /\ Pair(req[w].list[1]) = <<"D1", "1">>
        /\ RegistrosPost(req[w].list, ("id" :> JsonNum(0)) @@ CreateBody("D2", "1")).status = 404
        /\ RegistrosPost(req[w].list, ("id" :> JsonNum(1)) @@ ConfirmFull).status = 404
        /\ RegistrosPost(req[w].list, ("id" :> JsonStr("1")) @@ ConfirmFull).status = 200
        /\ RegistrosPost(req[w].list, ("id" :> JsonStr("0")) @@ CreateBody("D2", "1")).status = 201

\* The workers that have loaded the referencias and are about to handle a POST.
AtReferencias == {w \in Workers : req[w].pc = "referencias"}

Entries(list, nm) == {list[i] : i \in {j \in 1..Len(list) : list[j].nm = nm}}

WellFormedBatch(data) ==
    /\ "referencias" \in DOMAIN data
    /\ \A i \in 1..Len(data.referencias) : "nm" \in DOMAIN data.referencias[i]

BatchNms(data) == {data.referencias[i].nm : i \in 1..Len(data.referencias)}

\* The last entry of the batch with this nm.
LastIncoming(data, nm) ==
    LET at == {i \in 1..Len(data.referencias) : data.referencias[i].nm = nm}
    IN  data.referencias[CHOOSE i \in at : \A j \in at : j <= i]

\* The entries of the batch are the stored ones for their nm (`incoming` says
\* which entry of the batch), the others are as loaded.
Upserts(list, data, allIncoming) ==
    LET r == ReferenciasPost(list, data)
    IN  /\ r.status = 200
        /\ r.save
        /\ \A nm \in BatchNms(data) :
            IF allIncoming
            THEN \A i \in 1..Len(data.referencias) :
                    data.referencias[i].nm = nm => Entries(r.list, nm) = {data.referencias[i]}
            ELSE Entries(r.list, nm) = {LastIncoming(data, nm)}
        /\ \A nm \in Nms \ BatchNms(data) : Entries(r.list, nm) = Entries(list, nm)
        /\ \A i \in 1..Len(list) : Entries(r.list, list[i].nm) # {}

\* C7 as stated: after a bulk upsert the stored entry of every nm of the batch
\* equals the incoming entry, the entries of the other nm are as before and
\* none is removed.
C7_Original ==
    \A w \in AtReferencias : \A data \in RefPayloads :
        WellFormedBatch(data) => Upserts(req[w].list, data, TRUE)

\* C7, amended: after a bulk upsert whose entries all carry nm, the stored entry
\* of every nm of the batch equals the last incoming entry with that nm, the
\* entries of the other nm are as before the call and none is removed.
C7_Upsert ==
    \A w \in AtReferencias : \A data \in RefPayloads :
        WellFormedBatch(data) => Upserts(req[w].list, data, FALSE)

\* A bulk upsert is handled over two stored entries: its batch names A twice, and
\* the answer holds the last entry for A and the stored entry of B as loaded.
C7_Witness ==
    \E w \in AtReferencias :
        LET data == [referencias |-> << [nm |-> "A", desc |-> "x"], [nm |-> "A", desc |-> "y"] >>]
            r == ReferenciasPost(req[w].list, data)
        IN  /\ req[w].list = << [nm |-> "A", desc |-> "x"], [nm |-> "B", desc |-> "x"] >>
            /\ data \in RefPayloads
            /\ r.status = 200
            /\ r.list = << [nm |-> "A", desc |-> "y"], [nm |-> "B", desc |-> "x"] >>

\* C8: the stored referencias never hold two entries with the same nm, whatever
\* requests ran and however they interleaved.  It holds of requests served one at
\* a time and fails of concurrent ones: the two reads of one load can take the
\* beginning of one stored list and the end of a later one, and a delete then
\* saves a list in which an nm occurs twice.
C8_UniqueNm ==
    \A i, j \in 1..Len(Loaded(refs)) : i # j => Loaded(refs)[i].nm # Loaded(refs)[j].nm

\* C9 as stated: when reset_data returns, both stores are empty lists and the
\* uploads directory has no entries, even when deletions failed.
C9_Original ==
    ReturningWith("reset", 200) # {}
        => (db = Written(Truncated, <<>>) /\ refs = Written(Truncated, <<>>)
            /\ uploads = {})

\* C9, amended: when a reset request served with no other request in progress
\* returns, both stores are empty lists and the uploads directory holds exactly
\* the files whose deletion failed (none when every deletion succeeded).
C9_Reset ==
    \A w \in ReturningWith("reset", 200) :
        /\ db = Written(Truncated, <<>>)
        /\ refs = Written(Truncated, <<>>)
        /\ uploads = req[w].printed

\* A reset returns after the deletion of one uploaded file failed.
C9_Witness ==
    \E w \in ReturningWith("reset", 200) :
        /\ Cardinality(uploads) = 1
        /\ req[w].printed = uploads

\* C10: nothing locks the registros between a request's load and its save (a
\* worker with no request can always load, whatever the others are doing), and a
\* save puts the saver's own whole list at the beginning of the file, whatever
\* was stored; so a creation answered 201 can be overwritten by another writer
\* (the witness).
C10_LastWriteWins ==
    /\ [](\A w \in Workers : req[w].pc = "idle" => ENABLED LoadRegistros(w))
    /\ [][\A w \in Workers :
            (req[w].pc = "save_data" /\ req'[w].pc = "return")
            => /\ db'.nil = (req[w].list = <<>>)
               /\ SubSeq(db'.cells, 1, Len(req[w].list)) = Cells(req[w].list)]_vars

\* Every worker has saved a creation and is about to return 201 with id 1: the
\* requests overlapped (none has returned, so none of them can have been a
\* reset), each loaded an empty list, and the store holds the one record of the
\* worker that saved last.
C10_Witness ==
    /\ \A w \in Workers : w \in ReturningWith("registros", 201) /\ req[w].resp.id = 1
    /\ Len(Loaded(db)) = 1
    /\ Loaded(db)[1].id = 1

====
